---------------------------- MODULE Spec2Model ----------------------------
(***************************************************************************)
(* Model of psico/minimizing.py: the fixed-atom locator                    *)
(* (get_fixed_indices), the degeneracy guard                               *)
(* (randomize_coords_if_collapsed), the result reconciler                  *)
(* (load_or_update / _load_or_update), the two engine adapters             *)
(* (minimize_ob, minimize_rdkit) and clean_ob.                             *)
(*                                                                         *)
(* The host scene (PyMOL's cmd) is modelled by what the calls made by the  *)
(* source do to it: named objects and selections, per-atom flag words,     *)
(* per-state coordinates and the API lock behind cmd.lockcm.               *)
(*                                                                         *)
(* Lengths are integers in units of 1e-3 (the guard's threshold is 1).     *)
(***************************************************************************)
EXTENDS Integers, Sequences, FiniteSets, TLC

\* ------------------------------------------------------------------ bounds
MaxAtoms == 2
NStates == 2
NThreads == 2
MaxTmp == 2

\* --------------------------------------------------------- program constants
\* flags & 0x8: the bit of "flag fix" (flag number 3)
FixBit == 8
\* coords.std(0).sum() > 1e-3, in units of 1e-3
Threshold == 1
\* numpy.random.random_sample(...) - 0.5 lies in [-0.5, 0.5): in units of 1e-3
JitterMin == -500
JitterMax == 499

Atoms == 1..MaxAtoms
States == 1..NStates
Threads == 1..NThreads
Axes == 1..3

\* flag words seen in the scene: no flag, another flag only (bit 0), fix only
FlagVals == {0, 1, FixBit}
\* coordinate values of the initial scene, in units of 1e-3
CoordVals == {0, 1}
JitterVals == {JitterMin, JitterMax}
\* the jitter drawn for one point: the extreme draws, on every axis
JitterDraws == {[ax \in Axes |-> j] : j \in JitterVals}

VARIABLES
    objects,    \* names of the objects of the scene
    sels,       \* named selections of the scene: name -> set of atoms
    flags,      \* atom -> flag word
    coords,     \* state -> atom -> <<x, y, z>>
    cur,        \* the scene's current state
    lock,       \* holder of cmd.lockcm (0: free)
    pc,         \* thread -> position in the code
    loc,        \* thread -> local variables of the running invocation
    probe       \* the last direct call of get_fixed_indices or of the guard

vars == <<objects, sels, flags, coords, cur, lock, pc, loc, probe>>

\* ---------------------------------------------------------------- helpers
RECURSIVE SetToSeq(_)
SetToSeq(S) ==
    IF S = {} THEN <<>>
    ELSE LET m == CHOOSE x \in S : \A y \in S : x <= y
         IN <<m>> \o SetToSeq(S \ {m})

RECURSIVE SumSeq(_)
SumSeq(s) == IF s = <<>> THEN 0 ELSE Head(s) + SumSeq(Tail(s))

Range(s) == {s[i] : i \in DOMAIN s}

\* ------------------------------------------------------ get_fixed_indices
\* '_append(flags & 0x8)': the value appended for one atom
FlagsAnd8(f) == ((f \div FixBit) % 2) * FixBit

\* The states iterate_state visits: a positive state is that state, -1 the
\* scene's current state, 0 every state in turn.
IterStates(state) ==
    IF state = 0 THEN [s \in 1..NStates |-> s]
    ELSE IF state = -1 THEN <<cur>>
    ELSE <<state>>

RECURSIVE Concat(_)
Concat(ss) == IF ss = <<>> THEN <<>> ELSE Head(ss) \o Concat(Tail(ss))

\* iterate_state(state, selection, '_append(flags & 0x8)'): fixed_list after
\* the call; the atoms of the selection are visited in scene order, once per
\* visited state.
IterateFixed(state, atoms) ==
    LET order == SetToSeq(atoms)
        one == [i \in DOMAIN order |-> FlagsAnd8(flags[order[i]])]
        sts == IterStates(state)
    IN Concat([k \in DOMAIN sts |-> one])

\* [idx for (idx, fixed) in enumerate(fixed_list) if fixed]
EnumerateFixed(fixed_list) ==
    LET idxs == [i \in DOMAIN fixed_list |-> i - 1]
    IN SelectSeq(idxs, LAMBDA idx : fixed_list[idx + 1] # 0)

GetFixedIndices(state, atoms) == EnumerateFixed(IterateFixed(state, atoms))


\* ------------------------------------------- randomize_coords_if_collapsed
\* the state a host call acts on: -1 is the scene's current state
HostState(state) == IF state = -1 THEN cur ELSE state

\* _self.get_coords(selection, state): one point per atom, in scene order
GetCoords(state, atoms) ==
    LET order == SetToSeq(atoms)
    IN [i \in DOMAIN order |-> coords[HostState(state)][order[i]]]

\* floor of the square root, by bisection
RECURSIVE SqrtSearch(_, _, _)
SqrtSearch(n, lo, hi) ==
    IF lo >= hi THEN lo
    ELSE LET mid == (lo + hi + 1) \div 2
         IN IF mid * mid <= n THEN SqrtSearch(n, mid, hi)
            ELSE SqrtSearch(n, lo, mid - 1)

ISqrt(n) == SqrtSearch(n, 0, IF n < 40000 THEN n ELSE 40000)

\* N^2 times the variance of the block along one axis: N*sum(x^2) - sum(x)^2
AxisVar(c, ax) ==
    LET N == Len(c)
        xs == [i \in 1..N |-> c[i][ax]]
        sq == [i \in 1..N |-> c[i][ax] * c[i][ax]]
    IN N * SumSeq(sq) - SumSeq(xs) * SumSeq(xs)

\* coords.std(0).sum() > 1e-3, that is sum_ax sqrt(AxisVar) > N * Threshold.
\* Exact when every AxisVar is a perfect square; otherwise the sum is
\* irrational and is compared at two decimal digits.
StdSumExceeds(c) ==
    LET N == Len(c)
        v == [ax \in Axes |-> AxisVar(c, ax)]
        r == [ax \in Axes |-> ISqrt(v[ax])]
        exact == \A ax \in Axes : r[ax] * r[ax] = v[ax]
        r100 == [ax \in Axes |-> ISqrt(v[ax] * 10000)]
    IN IF exact THEN SumSeq(r) > N * Threshold
       ELSE SumSeq(r100) >= N * Threshold * 100

\* Collapsed without the test of the number of points
CollapsedAnyCount(c) == ~StdSumExceeds(c)

\* line 53 negated: the block is randomized
Collapsed(c) == ~(Len(c) < 2 \/ StdSumExceeds(c))

\* <<sin(angle_i) * width, cos(angle_i) * width, 0>> for angle_i = 2*pi*i/N and
\* width = N^(1/3), rounded to units of 1e-3 (i counts from 0)
RingOffset(N, i) ==
    CASE N = 2 -> <<<<0, 1260, 0>>, <<0, -1260, 0>>>>[i + 1]
      [] N = 3 -> <<<<0, 1442, 0>>, <<1249, -721, 0>>, <<-1249, -721, 0>>>>[i + 1]
      [] N = 4 -> <<<<0, 1587, 0>>, <<1587, 0, 0>>, <<0, -1587, 0>>,
                    <<-1587, 0, 0>>>>[i + 1]
      [] OTHER -> <<0, 0, 0>>

\* lines 58-65: the ring (when fancy) and the jitter added to the block
Perturbed(c, fancy, jit) ==
    [i \in DOMAIN c |->
        [ax \in Axes |->
            c[i][ax] + (IF fancy THEN RingOffset(Len(c), i - 1)[ax] ELSE 0)
                     + jit[i][ax]]]

\* _self.load_coords(coords, selection, state): the scene after the call
LoadCoords(c, state, atoms) ==
    LET order == SetToSeq(atoms)
        pos(a) == CHOOSE i \in DOMAIN order : order[i] = a
    IN [coords EXCEPT ![HostState(state)] =
            [a \in Atoms |-> IF a \in atoms THEN c[pos(a)] ELSE @[a]]]

\* ------------------------------------------------------------ direct calls
IdleProbe ==
    [kind |-> "idle", atoms |-> {}, state |-> 1, fancy |-> TRUE, out |-> <<>>,
     loads |-> <<>>, raised |-> FALSE, before |-> <<>>, flags0 |-> <<>>]

\* the state arguments accepted by iterate_state
LocatorStates == {-1, 0} \cup States
\* the state arguments of the guard: a state, or -1 for the current state
GuardStates == {-1} \cup States

\* a call get_fixed_indices(selection, state, cmd)
LocatorCall ==
    /\ probe.kind = "idle"
    /\ \E atoms \in SUBSET Atoms, state \in LocatorStates :
         probe' = [IdleProbe EXCEPT !.kind = "locator", !.atoms = atoms,
                                    !.state = state,
                                    !.out = GetFixedIndices(state, atoms),
                                    !.before = coords, !.flags0 = flags]
    /\ UNCHANGED <<objects, sels, flags, coords, cur, lock, pc, loc>>

\* a call randomize_coords_if_collapsed(selection, state, fancy)
GuardCall ==
    /\ probe.kind = "idle"
    /\ \E atoms \in SUBSET Atoms, state \in GuardStates, fancy \in BOOLEAN :
         LET c == GetCoords(state, atoms)
             p == [IdleProbe EXCEPT !.kind = "guard", !.atoms = atoms,
                                    !.state = state, !.fancy = fancy,
                                    !.before = coords, !.flags0 = flags]
         IN IF atoms = {}
            THEN \* get_coords returns None: len(None) raises TypeError
                 /\ probe' = [p EXCEPT !.raised = TRUE]
                 /\ UNCHANGED coords
            ELSE IF ~Collapsed(c)
            THEN /\ probe' = p
                 /\ UNCHANGED coords
            ELSE \E jit \in [DOMAIN c -> JitterDraws] :
                 /\ coords' = LoadCoords(Perturbed(c, fancy, jit), state, atoms)
                 /\ probe' = [p EXCEPT
                        !.loads = <<[selection |-> atoms, state |-> state]>>]
    /\ UNCHANGED <<objects, sels, flags, cur, lock, pc, loc>>

\* ------------------------------------------------------------- host scene
NoName == <<"", 0>>
Obj == <<"obj", 0>>
Out == <<"out", 0>>

\* every name in use in the scene, objects and selections alike
UsedNames == objects \cup DOMAIN sels

\* _self.get_unused_name(prefix): prefix01, prefix02, ...: the first unused
GetUnusedName(prefix) ==
    LET n == CHOOSE k \in 1..(Cardinality(UsedNames) + 1) :
                /\ <<prefix, k>> \notin UsedNames
                /\ \A j \in 1..(k - 1) : <<prefix, j>> \in UsedNames
    IN <<prefix, n>>

\* _self.delete(name): the selections left in the scene
SelsWithout(name) == [n \in (DOMAIN sels) \ {name} |-> sels[n]]

\* _self.select(name, selection): the selections of the scene after the call
SelsWith(name, atoms) ==
    [n \in (DOMAIN sels) \cup {name} |-> IF n = name THEN atoms ELSE sels[n]]

\* _self.flag('fix', selection, 'set')
FlagSet(f, atoms) ==
    [a \in Atoms |-> IF a \in atoms /\ FlagsAnd8(f[a]) = 0
                     THEN f[a] + FixBit ELSE f[a]]

\* _self.flag('fix', selection, 'clear')
FlagClear(f, atoms) ==
    [a \in Atoms |-> IF a \in atoms /\ FlagsAnd8(f[a]) # 0
                     THEN f[a] - FixBit ELSE f[a]]

IsFixed(a) == FlagsAnd8(flags[a]) # 0

\* ------------------------------------------------------ invocation locals
IdleLoc ==
    [entry |-> "none", caller |-> "none", selection |-> {}, present |-> <<>>,
     work |-> {}, state |-> -1, ff |-> "ok", name |-> "", sele |-> NoName,
     natoms |-> 0, tmp |-> NoName, fixed |-> <<>>, constr |-> {},
     xfit |-> "none", fit |-> "none", exc |-> "none", trace |-> <<>>,
     ret |-> "none"]

\* AfterRaise with the try statements' finally clauses left out
AfterRaiseNoFinally(where) ==
    CASE where = "before_try" -> "done"
      [] where = "try" -> "done"
      [] where = "with" -> "release"

\* where control goes when an exception is raised: out of the function
\* before the try statement, to the finally clause inside it (lines 104-159,
\* 189-229), to the exit of the with statement inside load_or_update
AfterRaise(where) ==
    CASE where = "before_try" -> "done"
      [] where = "try" -> "finally"
      [] where = "with" -> "release"

\* an exception of the given kind raised at the given place, the locals
\* being l
Raise(t, l, kind, where) ==
    /\ pc' = [pc EXCEPT ![t] = AfterRaise(where)]
    /\ loc' = [loc EXCEPT ![t] =
                  [l EXCEPT !.exc = kind,
                            !.ret = IF AfterRaise(where) = "done"
                                    THEN "raised" ELSE @]]

\* the next statement, the locals being l
Goto(t, l, next) ==
    /\ pc' = [pc EXCEPT ![t] = next]
    /\ loc' = [loc EXCEPT ![t] = l]

\* a host call that names the temporary selection fails when the selection is
\* gone, and may fail for reasons of its own
MayFail(t) == IF loc[t].sele \in DOMAIN sels THEN BOOLEAN ELSE {TRUE}

TmpObjects == {o \in objects : o[1] = "_minimized"}

\* ------------------------------------------------------------------ calls
\* minimize_ob(selection, state, ff, name=name) or minimize_rdkit(...)
CallMinimize(t, selections, states, ffs) ==
    /\ pc[t] = "idle"
    /\ Cardinality(TmpObjects) < MaxTmp
    /\ \E entry \in {"ob", "rdkit"}, selection \in selections,
          state \in states, ff \in ffs, name \in {"", "out"} :
         loc' = [loc EXCEPT ![t] =
                    [IdleLoc EXCEPT !.entry = entry, !.caller = "direct",
                                    !.selection = selection, !.work = selection,
                                    !.state = state, !.ff = ff, !.name = name]]
    /\ pc' = [pc EXCEPT ![t] = "getname"]
    /\ UNCHANGED <<objects, sels, flags, coords, cur, lock, probe>>

\* clean_ob(selection, present, state, method=ff): present is <<>> for the
\* empty string and <<S>> for an expression that selects the atoms S
CallClean(t) ==
    /\ pc[t] = "idle"
    /\ Cardinality(TmpObjects) < MaxTmp
    /\ \E selection \in SUBSET Atoms,
          present \in {<<>>} \cup {<<S>> : S \in SUBSET Atoms},
          state \in LocatorStates, ff \in {"ok", "unknown"} :
         /\ loc' = [loc EXCEPT ![t] =
                      [IdleLoc EXCEPT !.entry = "ob", !.caller = "clean",
                                      !.selection = selection,
                                      !.present = present, !.work = selection,
                                      !.state = state, !.ff = ff]]
         /\ pc' = [pc EXCEPT ![t] = IF present # <<>> THEN "clean_set"
                                    ELSE "getname"]
    /\ UNCHANGED <<objects, sels, flags, coords, cur, lock, probe>>

\* ---------------------------------------------------------------- clean_ob
\* CleanClearAtoms sparing the atoms of present
CleanClearAtomsNotPresent(selection, present) == selection \ present

\* line 252: the atoms whose fix flag is cleared
CleanClearAtoms(selection, present) == selection

\* line 253: '({})|({})'.format(selection, present)
CleanWork(selection, present) == selection \cup present

\* line 251
CleanSet(t) ==
    /\ pc[t] = "clean_set"
    /\ flags' = FlagSet(flags, loc[t].present[1])
    /\ pc' = [pc EXCEPT ![t] = "clean_clear"]
    /\ UNCHANGED <<objects, sels, coords, cur, lock, loc, probe>>

\* lines 252-253
CleanClear(t) ==
    /\ pc[t] = "clean_clear"
    /\ flags' = FlagClear(flags,
                    CleanClearAtoms(loc[t].selection, loc[t].present[1]))
    /\ loc' = [loc EXCEPT ![t].work =
                    CleanWork(loc[t].selection, loc[t].present[1])]
    /\ pc' = [pc EXCEPT ![t] = "getname"]
    /\ UNCHANGED <<objects, sels, coords, cur, lock, probe>>

\* lines 258-259, reached only when minimize_ob returned
CleanUnfix(t) ==
    /\ pc[t] = "clean_unfix"
    /\ flags' = FlagClear(flags, loc[t].present[1])
    /\ pc' = [pc EXCEPT ![t] = "done"]
    /\ loc' = [loc EXCEPT ![t].ret = "returned"]
    /\ UNCHANGED <<objects, sels, coords, cur, lock, probe>>

\* ------------------------------------------- minimize_ob, minimize_rdkit
\* line 101, 186
GetName(t) ==
    /\ pc[t] = "getname"
    /\ Goto(t, [loc[t] EXCEPT !.sele = GetUnusedName("_sele")], "select")
    /\ UNCHANGED <<objects, sels, flags, coords, cur, lock, probe>>

\* line 102, 187: the host rejects the expression and nothing is created, or
\* the selection is created (replacing one of the same name). The host has
\* accepted the expressions that lines 251-252 passed to it.
Select(t) ==
    /\ pc[t] = "select"
    /\ \/ /\ ~(loc[t].caller = "clean" /\ loc[t].present # <<>>)
          /\ Raise(t, loc[t], "select", "before_try")
          /\ UNCHANGED sels
       \/ /\ sels' = SelsWith(loc[t].sele, loc[t].work)
          /\ Goto(t, [loc[t] EXCEPT !.natoms = Cardinality(loc[t].work)],
                  "guard")
    /\ UNCHANGED <<objects, flags, coords, cur, lock, probe>>

\* lines 105-108, 190-193: the empty-selection check and the degeneracy
\* guard, whose coordinate writes no other step of the pipeline reads here
Guard(t) ==
    /\ pc[t] = "guard"
    /\ IF loc[t].natoms = 0
       THEN Raise(t, loc[t], "empty selection", "try")
       ELSE \E fail \in MayFail(t) :
              IF fail THEN Raise(t, loc[t], "guard", "try")
              ELSE Goto(t, loc[t], "export")
    /\ UNCHANGED <<objects, sels, flags, coords, cur, lock, probe>>

\* lines 110-125: get_str, ReadString, AddHydrogens, constraint setup;
\* lines 195-213: get_str, MolFromMolBlock (None: rejected), force field
Export(t) ==
    /\ pc[t] = "export"
    /\ IF loc[t].entry = "rdkit" /\ loc[t].ff = "unknown"
       THEN \E fail \in MayFail(t) :
              IF fail THEN Raise(t, loc[t], "export", "try")
              ELSE Raise(t, loc[t], "unknown forcefield", "try")
       ELSE \E fail \in MayFail(t) :
              IF fail THEN Raise(t, loc[t], "export", "try")
              ELSE Goto(t, loc[t], "constrain")
    /\ UNCHANGED <<objects, sels, flags, coords, cur, lock, probe>>

\* ObAtomId without the shift to 1-based atom ids
ObAtomIdZeroBased(idx) == idx

\* line 130: consttrains.AddAtomConstraint(idx + 1)
ObAtomId(idx) == idx + 1

\* line 217: ff.AddFixedPoint(idx)
RdkitAtomId(idx) == idx

\* lines 128-130, 216-217
Constrain(t) ==
    /\ pc[t] = "constrain"
    /\ IF loc[t].sele \notin DOMAIN sels
       THEN Raise(t, loc[t], "constrain", "try")
       ELSE LET fixed == GetFixedIndices(loc[t].state, sels[loc[t].sele])
                ids == IF loc[t].entry = "ob"
                       THEN {ObAtomId(fixed[i]) : i \in DOMAIN fixed}
                       ELSE {RdkitAtomId(fixed[i]) : i \in DOMAIN fixed}
            IN Goto(t, [loc[t] EXCEPT !.fixed = fixed, !.constr = ids],
                    IF loc[t].entry = "ob" THEN "setupff" ELSE "minimize")
    /\ UNCHANGED <<objects, sels, flags, coords, cur, lock, probe>>

\* lines 133-142 (minimize_ob only)
SetupFF(t) ==
    /\ pc[t] = "setupff"
    /\ IF loc[t].ff = "unknown"
       THEN Raise(t, loc[t], "FindForceField returned None", "try")
       ELSE \E fail \in BOOLEAN :
              IF fail THEN Raise(t, loc[t], "setupff", "try")
              ELSE Goto(t, loc[t], "minimize")
    /\ UNCHANGED <<objects, sels, flags, coords, cur, lock, probe>>

\* lines 145-153, 220-223
Minimize(t) ==
    /\ pc[t] = "minimize"
    /\ \E fail \in BOOLEAN :
         IF fail THEN Raise(t, loc[t], "minimize", "try")
         ELSE Goto(t, loc[t], "acquire")
    /\ UNCHANGED <<objects, sels, flags, coords, cur, lock, probe>>

\* ---------------------------------------------------------- load_or_update
\* LockAvailable without the wait
LockIgnored(t) == TRUE

\* line 17: entering "with _self.lockcm" waits for the lock
LockAvailable(t) == lock = 0

Acquire(t) ==
    /\ pc[t] = "acquire"
    /\ LockAvailable(t)
    /\ lock' = t
    /\ pc' = [pc EXCEPT ![t] = "lu_load"]
    /\ UNCHANGED <<objects, sels, flags, coords, cur, loc, probe>>

\* lines 22-29
LuLoad(t) ==
    /\ pc[t] = "lu_load"
    /\ LET update == loc[t].name = ""
           name == IF update THEN GetUnusedName("_minimized") ELSE Out
           l == [loc[t] EXCEPT !.tmp = name,
                    !.trace = IF update THEN <<"load_raw">>
                              ELSE <<"delete", "load_raw">>]
       IN \E fail \in BOOLEAN :
            IF fail
            THEN /\ objects' = IF update THEN objects ELSE objects \ {name}
                 /\ Raise(t, l, "load_raw", "with")
            ELSE /\ objects' = objects \cup {name}
                 /\ Goto(t, l, "lu_fit")
    /\ UNCHANGED <<sels, flags, coords, cur, lock, probe>>

\* FallsBack with the fallback run for any failure of xfit
FallsBackOnAnyFailure(x) == x # "ok"

\* line 34: the fallback fit runs for an ImportError only
FallsBack(x) == x = "ImportError"

\* lines 31-37: x is what the import and call of xfit do, f what the
\* fallback fit does
LuFit(t) ==
    /\ pc[t] = "lu_fit"
    /\ LET after == IF loc[t].name = "" THEN "lu_update" ELSE "release"
       IN \E x \in {"ok", "ImportError", "Exception"} :
            IF x = "ok"
            THEN Goto(t, [loc[t] EXCEPT !.xfit = x,
                                        !.trace = @ \o <<"xfit">>], after)
            ELSE IF FallsBack(x)
            THEN \E f \in {"ok", "raise"} :
                   LET l == [loc[t] EXCEPT !.xfit = x, !.fit = f,
                                           !.trace = @ \o <<"fit">>]
                   IN IF f = "raise" THEN Raise(t, l, "fit", "with")
                      ELSE Goto(t, l, after)
            ELSE Goto(t, [loc[t] EXCEPT !.xfit = x,
                                        !.trace = @ \o <<"print">>], after)
    /\ UNCHANGED <<objects, sels, flags, coords, cur, lock, probe>>

\* line 40
LuUpdate(t) ==
    /\ pc[t] = "lu_update"
    /\ LET l == [loc[t] EXCEPT !.trace = @ \o <<"update">>]
       IN \E fail \in MayFail(t) :
            IF fail THEN Raise(t, l, "update", "with")
            ELSE Goto(t, l, "lu_delete")
    /\ UNCHANGED <<objects, sels, flags, coords, cur, lock, probe>>

\* line 41
LuDelete(t) ==
    /\ pc[t] = "lu_delete"
    /\ objects' = objects \ {loc[t].tmp}
    /\ Goto(t, [loc[t] EXCEPT !.trace = @ \o <<"delete_tmp">>], "release")
    /\ UNCHANGED <<sels, flags, coords, cur, lock, probe>>

\* lines 17-18: leaving the with statement, normally or by an exception
Release(t) ==
    /\ pc[t] = "release"
    /\ lock' = 0
    /\ pc' = [pc EXCEPT ![t] = "finally"]
    /\ UNCHANGED <<objects, sels, flags, coords, cur, loc, probe>>

\* lines 158-159, 228-229, and the return to the caller: a pending
\* exception propagates, through clean_ob too
Finally(t) ==
    /\ pc[t] = "finally"
    /\ sels' = SelsWithout(loc[t].sele)
    /\ objects' = objects \ {loc[t].sele}
    /\ IF loc[t].exc # "none"
       THEN Goto(t, [loc[t] EXCEPT !.ret = "raised"], "done")
       ELSE IF loc[t].caller = "clean" /\ loc[t].present # <<>>
       THEN Goto(t, loc[t], "clean_unfix")
       ELSE Goto(t, [loc[t] EXCEPT !.ret = "returned"], "done")
    /\ UNCHANGED <<flags, coords, cur, lock, probe>>

\* the caller goes on
Return(t) ==
    /\ pc[t] = "done"
    /\ Goto(t, IdleLoc, "idle")
    /\ UNCHANGED <<objects, sels, flags, coords, cur, lock, probe>>

\* ---------------------------------------------------------- specifications
ZeroCoords == [s \in States |-> [a \in Atoms |-> <<0, 0, 0>>]]

InitScene ==
    /\ objects = {Obj}
    /\ sels = <<>>
    /\ lock = 0
    /\ pc = [t \in Threads |-> "idle"]
    /\ loc = [t \in Threads |-> IdleLoc]
    /\ probe = IdleProbe

\* a scene with any atoms flagged fix
Init ==
    /\ InitScene
    /\ flags \in [Atoms -> {0, FixBit}]
    /\ coords = ZeroCoords
    /\ cur = 1

AdapterStep(t) ==
    \/ GetName(t) \/ Select(t) \/ Guard(t) \/ Export(t) \/ Constrain(t)
    \/ SetupFF(t) \/ Minimize(t) \/ Acquire(t) \/ LuLoad(t) \/ LuFit(t)
    \/ LuUpdate(t) \/ LuDelete(t) \/ Release(t) \/ Finally(t) \/ Return(t)

\* one caller at a time: the commands called one after the other
Next ==
    \/ CallMinimize(1, SUBSET Atoms, LocatorStates, {"ok", "unknown"})
    \/ CallClean(1)
    \/ CleanSet(1) \/ CleanClear(1) \/ CleanUnfix(1)
    \/ AdapterStep(1)

Spec == Init /\ [][Next]_vars

\* concurrent callers of the two adapters
NextConc ==
    \E t \in Threads :
        \/ CallMinimize(t, {Atoms}, {-1}, {"ok"})
        \/ AdapterStep(t)

InitConc ==
    /\ InitScene
    /\ flags = [a \in Atoms |-> IF a = 1 THEN FixBit ELSE 0]
    /\ coords = ZeroCoords
    /\ cur = 1

SpecConc == InitConc /\ [][NextConc]_vars

\* get_fixed_indices called on a scene with any flag words
InitLocator ==
    /\ InitScene
    /\ flags \in [Atoms -> FlagVals]
    /\ coords = ZeroCoords
    /\ cur \in States

SpecLocator == InitLocator /\ [][LocatorCall]_vars

\* the guard called on a scene with any coordinates
InitGuard ==
    /\ InitScene
    /\ flags = [a \in Atoms |-> 0]
    /\ \E b \in [Atoms -> [Axes -> CoordVals]] : coords = [s \in States |-> b]
    /\ cur \in States

SpecGuard == InitGuard /\ [][GuardCall]_vars

\* ------------------------------------------------------------------ claims
Count(e, s) == Cardinality({i \in DOMAIN s : s[i] = e})

\* the positions 0..N-1 of the atoms flagged fix in a selection
FixedPositions(atoms) ==
    LET order == SetToSeq(atoms)
    IN {i - 1 : i \in {j \in DOMAIN order : IsFixed(order[j])}}

\* C1: when minimize_ob or minimize_rdkit returns or raises, on every exit
\* path, the temporary selection it named is gone from the scene, and a
\* failure that occurred is raised to the caller.
C1_SeleDeletedOnEveryExit ==
    \A t \in Threads :
        pc[t] = "done" =>
            /\ loc[t].sele \notin UsedNames
            /\ loc[t].ret = IF loc[t].exc = "none" THEN "returned" ELSE "raised"

\* a call that created its selection and failed in the reconciler's update
C1_Witness ==
    \E t \in Threads :
        /\ pc[t] = "done"
        /\ loc[t].sele # NoName
        /\ loc[t].natoms > 0
        /\ loc[t].exc = "update"
        /\ loc[t].ret = "raised"

\* C2: when clean_ob with a non-empty present returns or raises, no atom of
\* present is flagged fix.
C2_FixClearedOnEveryExit ==
    \A t \in Threads :
        (pc[t] = "done" /\ loc[t].caller = "clean" /\ loc[t].present # <<>>)
            => \A a \in loc[t].present[1] : ~IsFixed(a)

\* C3: when an adapter called in update mode returns or raises, no temporary
\* _minimized object is left in the scene.
C3_NoResidualTemporary ==
    \A t \in Threads :
        (pc[t] = "done" /\ loc[t].name = "")
            => /\ loc[t].tmp \notin objects
               /\ TmpObjects = {}

\* C4: in update mode, once the reconciler has reached the fit, a failure of
\* xfit, of the fallback fit or of both does not abort the reconciliation:
\* update is called.
C4_FitFailureNonFatal ==
    \A t \in Threads :
        (pc[t] = "done" /\ loc[t].name = ""
            /\ (loc[t].xfit \in {"ImportError", "Exception"}
                \/ loc[t].fit = "raise"))
            => /\ Count("update", loc[t].trace) = 1
               /\ loc[t].exc # "fit"

\* C5: at most one invocation is inside the reconciler's section of
\* load_or_update at any instant.
ReconcilerPcs == {"lu_load", "lu_fit", "lu_update", "lu_delete", "release"}

C5_ReconcilerMutex ==
    Cardinality({t \in Threads : pc[t] \in ReconcilerPcs}) <= 1

\* one invocation inside the section while another waits to enter it
C5_Witness ==
    \E t, u \in Threads :
        /\ t # u
        /\ pc[t] = "lu_fit"
        /\ pc[u] = "acquire"

C7_FixedOnPresentClearOnSelection ==
    \A t \in Threads :
        (pc[t] = "minimize" /\ loc[t].caller = "clean" /\ loc[t].present # <<>>)
            => /\ \A a \in loc[t].present[1] : IsFixed(a)
               /\ \A a \in loc[t].selection : ~IsFixed(a)
               /\ loc[t].sele \in DOMAIN sels
               /\ sels[loc[t].sele] = loc[t].selection \cup loc[t].present[1]

\* C7 as amended: every atom of present that is not in the primary selection
\* is flagged fix, no atom of the primary selection is, and the selection
\* minimized is the union of the two.
C7_FixedOnPresentOutsideSelection ==
    \A t \in Threads :
        (pc[t] = "minimize" /\ loc[t].caller = "clean" /\ loc[t].present # <<>>)
            => /\ \A a \in loc[t].present[1] \ loc[t].selection : IsFixed(a)
               /\ \A a \in loc[t].selection : ~IsFixed(a)
               /\ loc[t].sele \in DOMAIN sels
               /\ sels[loc[t].sele] = loc[t].selection \cup loc[t].present[1]

\* clean_ob minimizing with a present that shares an atom with the primary
\* selection and has an atom of its own
C7_Witness ==
    \E t \in Threads :
        /\ pc[t] = "minimize"
        /\ loc[t].caller = "clean"
        /\ loc[t].present # <<>>
        /\ loc[t].present[1] \cap loc[t].selection # {}
        /\ loc[t].present[1] \ loc[t].selection # {}

\* C8: get_fixed_indices returns exactly the positions, below N, of the atoms
\* flagged fix among the N atoms of the selection, for every accepted state
\* argument, and leaves the scene as it was.
C8_LocatorReturnsExactlyF ==
    probe.kind = "locator" =>
        /\ Range(probe.out) = FixedPositions(probe.atoms)
        /\ \A idx \in Range(probe.out) : idx >= 0 /\ idx < Cardinality(probe.atoms)
        /\ flags = probe.flags0
        /\ coords = probe.before

\* C9: the guard writes no coordinate when the selection has fewer than 2
\* points or its summed standard deviation exceeds the threshold; it calls
\* load_coords only for a collapsed selection of 2 or more points, with the
\* selection and state it read, and changes no other coordinate.
C9_GuardFrame ==
    probe.kind = "guard" =>
        LET order == SetToSeq(probe.atoms)
            st == IF probe.state = -1 THEN cur ELSE probe.state
            c0 == [i \in DOMAIN order |-> probe.before[st][order[i]]]
            noop == Len(c0) < 2 \/ StdSumExceeds(c0)
        IN /\ noop => (probe.loads = <<>> /\ coords = probe.before)
           /\ probe.loads # <<>> =>
                /\ ~noop
                /\ probe.loads = <<[selection |-> probe.atoms,
                                    state |-> probe.state]>>
                /\ \A s \in States, a \in Atoms :
                     (s # st \/ a \notin probe.atoms)
                        => coords[s][a] = probe.before[s][a]
           /\ coords # probe.before => probe.loads # <<>>

\* the guard called on 2 or more points that are spread out
C9_Witness ==
    /\ probe.kind = "guard"
    /\ Cardinality(probe.atoms) >= 2
    /\ StdSumExceeds(GetCoords(probe.state, probe.atoms))
    /\ probe.loads = <<>>

\* C10: when the minimization is about to start, the atoms registered as
\* immovable are exactly those get_fixed_indices returns for the temporary
\* selection: idx + 1 for minimize_ob, idx for minimize_rdkit.
C10_FixedRegisteredBeforeMinimize ==
    \A t \in Threads :
        pc[t] = "minimize" =>
            /\ loc[t].sele \in DOMAIN sels
            /\ LET fixed == Range(GetFixedIndices(loc[t].state,
                                                  sels[loc[t].sele]))
               IN /\ loc[t].entry = "ob" =>
                        loc[t].constr = {idx + 1 : idx \in fixed}
                  /\ loc[t].entry = "rdkit" => loc[t].constr = fixed

\* minimize_ob about to minimize with a fixed atom registered
C10_Witness ==
    \E t \in Threads :
        /\ pc[t] = "minimize"
        /\ loc[t].entry = "ob"
        /\ loc[t].constr # {}
=============================================================================
